---- MODULE Spec2Model ----
(***************************************************************************)
(* Model of backend.py: the keyword engine (keyword_match_mask,            *)
(* keyword_search), the TF-IDF semantic index (TfIdfSemantic.build /       *)
(* TfIdfSemantic.search) and the two routes /load and /search that share   *)
(* the module-level state SHEETS and SEM.                                  *)
(*                                                                         *)
(* A Python str is a sequence of one-character strings.  A cell is a       *)
(* record [na |-> BOOLEAN, s |-> str]: na marks a missing value (NaN).     *)
(* A DataFrame is a sequence of rows, a row a sequence of cells; a slice   *)
(* of a DataFrame (df.loc[mask], head, iloc) is the sequence of the index  *)
(* labels it keeps.  A dict is the sequence, in insertion order, of its    *)
(* [name, val] records; names are distinct.                                *)
(*                                                                         *)
(* pandas semantics are those of pandas 1.x / 2.x, which the code is       *)
(* written against: DataFrame.astype(str) turns NaN into the text "nan".   *)
(***************************************************************************)
EXTENDS Integers, Sequences, FiniteSets, TLC

VARIABLES SHEETS, SEM, pending, resp, call, ret, pc

vars == <<SHEETS, SEM, pending, resp, call, ret, pc>>

-----------------------------------------------------------------------------
(* Bounds of the model *)

MaxRows == 2
MaxUploadRows == 1
MaxCap == 2
MaxK == 2
MaxLimit == 1
MaxScore == 2
MaxPending == 1

(* Program constants *)

DefaultPerSheetCap == 100
DefaultTotalCap == 1000
BuildPerSheetLimit == 5000
DefaultTopK == 30

-----------------------------------------------------------------------------
(* Characters and strings *)

Letters == {"A", "B", "a", "b", "n", "x"}
Digits == {"0", "1", "7"}

IsLetter(c) == c \in Letters
IsDigit(c) == c \in Digits
IsWordChar(c) == IsLetter(c) \/ IsDigit(c)
IsSpace(c) == c = " "

LowerChar(c) == CASE c = "A" -> "a" [] c = "B" -> "b" [] OTHER -> c

Lower(s) == [i \in 1..Len(s) |-> LowerChar(s[i])]

\* Code point of a character: what Python compares str values by.
Ord(c) ==
  CASE c = " " -> 32 [] c = "(" -> 40 [] c = "." -> 46
    [] c = "0" -> 48 [] c = "1" -> 49 [] c = "7" -> 55
    [] c = "A" -> 65 [] c = "B" -> 66
    [] c = "a" -> 97 [] c = "b" -> 98 [] c = "n" -> 110 [] c = "x" -> 120
    [] c = "|" -> 124

RECURSIVE StrLess(_, _)
StrLess(a, b) ==
  IF Len(a) = 0 THEN Len(b) > 0
  ELSE IF Len(b) = 0 THEN FALSE
  ELSE IF Ord(a[1]) # Ord(b[1]) THEN Ord(a[1]) < Ord(b[1])
  ELSE StrLess(Tail(a), Tail(b))

Min(a, b) == IF a <= b THEN a ELSE b

\* str.strip(): drop leading and trailing whitespace.
RECURSIVE LStrip(_)
LStrip(s) == IF Len(s) > 0 /\ IsSpace(s[1]) THEN LStrip(Tail(s)) ELSE s

RECURSIVE RStrip(_)
RStrip(s) ==
  IF Len(s) > 0 /\ IsSpace(s[Len(s)]) THEN RStrip(SubSeq(s, 1, Len(s) - 1)) ELSE s

Strip(s) == RStrip(LStrip(s))

-----------------------------------------------------------------------------
(* Cells, rows, data frames *)

Str(s) == [na |-> FALSE, s |-> s]
NaN == [na |-> TRUE, s |-> <<>>]

\* DataFrame.astype(str) on one cell: NaN becomes the text "nan".
AstypeStr(cell) == IF cell.na THEN <<"n", "a", "n">> ELSE cell.s

\* _coerce_to_str on one cell: astype(str) leaves no missing value, so the
\* fillna("") that follows it changes nothing.
CoerceToStr(cell) == AstypeStr(cell)

\* df.empty: no rows, or no columns.
DfEmpty(df) == Len(df) = 0 \/ Len(df[1]) = 0

\* df.head(n) for n >= 0, applied to a slice given by its index labels.
DfHead(idx, n) == SubSeq(idx, 1, Min(n, Len(idx)))

-----------------------------------------------------------------------------
(* Keyword engine *)

\* re.match(r"^[A-Za-z]+0*\d+$", s): a split of s into one or more letters,
\* zero or more "0", one or more digits.  (No string of the model ends in a
\* newline, the one case where Python's $ matches before the end.)
LooksLikeId(s) ==
  \E i \in 1..Len(s) : \E j \in i..Len(s) :
    /\ j < Len(s)
    /\ \A k \in 1..i : IsLetter(s[k])
    /\ \A k \in (i + 1)..j : s[k] = "0"
    /\ \A k \in (j + 1)..Len(s) : IsDigit(s[k])

\* re.compile(q): of the characters of the model only "(" and "." are regex
\* syntax, and an opening parenthesis never closed is an re.error.
RegexCompiles(q) == \A k \in 1..Len(q) : q[k] # "("

\* One pattern character against one text character under re.IGNORECASE.
RegexCharMatch(p, c) == IF p = "." THEN TRUE ELSE LowerChar(p) = LowerChar(c)

\* re.compile(q, re.IGNORECASE).search(s) is not None
RegexSearch(q, s) ==
  \E st \in 0..(Len(s) - Len(q)) :
    \A k \in 1..Len(q) : RegexCharMatch(q[k], s[st + k])

\* Series.str.contains(q, case=False, na=False): regex=True is the default.
StrContains(s, q) == RegexSearch(q, s)

\* Faulty variant of RowHits: the substring policy whatever the query.
RowHitsSubstringOnly(row, query) ==
  \E c \in 1..Len(row) : StrContains(CoerceToStr(row[c]), query)

\* One row of keyword_match_mask: the OR over the columns of the per-column
\* hit of the selected policy.
RowHits(row, query) ==
  IF LooksLikeId(query)
  THEN \E c \in 1..Len(row) : Lower(CoerceToStr(row[c])) = Lower(query)
  ELSE \E c \in 1..Len(row) : StrContains(CoerceToStr(row[c]), query)

\* keyword_match_mask raises when the substring policy compiles a bad regex.
MaskRaises(df, query) == ~LooksLikeId(query) /\ ~RegexCompiles(query)

KeywordMatchMask(df, query) == [i \in 1..Len(df) |-> RowHits(df[i], query)]

\* df.loc[mask]: the index labels of the rows whose mask is True, in order.
RECURSIVE LocMask(_, _)
LocMask(mask, n) ==
  IF n = 0 THEN <<>>
  ELSE IF mask[n] THEN Append(LocMask(mask, n - 1), n) ELSE LocMask(mask, n - 1)

\* int(mask.sum())
RECURSIVE MaskSum(_, _)
MaskSum(mask, n) ==
  IF n = 0 THEN 0 ELSE MaskSum(mask, n - 1) + (IF mask[n] THEN 1 ELSE 0)

\* A dict as a sequence of [name, val] records in insertion order.
Keys(d) == [i \in 1..Len(d) |-> d[i].name]

HasKey(d, name) == \E i \in 1..Len(d) : d[i].name = name

Get(d, name) == d[CHOOSE i \in 1..Len(d) : d[i].name = name].val

\* Faulty variant of KwTotal: the total adds up the rows kept after the cap.
KwTotalOfKept(total, count, per_sheet_cap) == total + Min(count, per_sheet_cap)

\* total += count
KwTotal(total, count, per_sheet_cap) == total + count

\* The first loop of keyword_search over sheets.items(), from sheet k on.
\* acc = [raised, results, counts, total].
RECURSIVE KwLoop(_, _, _, _, _)
KwLoop(sheets, query, per_sheet_cap, k, acc) ==
  IF k > Len(sheets) \/ acc.raised THEN acc
  ELSE
    LET name == sheets[k].name
        df == sheets[k].val
    IN IF DfEmpty(df)
       THEN KwLoop(sheets, query, per_sheet_cap, k + 1,
                   [acc EXCEPT !.counts = Append(@, [name |-> name, val |-> 0])])
       ELSE IF MaskRaises(df, query)
       THEN [acc EXCEPT !.raised = TRUE]
       ELSE
         LET mask == KeywordMatchMask(df, query)
             count == MaskSum(mask, Len(df))
             kept == DfHead(LocMask(mask, Len(df)), per_sheet_cap)
         IN KwLoop(sheets, query, per_sheet_cap, k + 1,
                   [raised |-> FALSE,
                    results |-> IF count > 0
                                THEN Append(acc.results, [name |-> name, val |-> kept])
                                ELSE acc.results,
                    counts |-> Append(acc.counts, [name |-> name, val |-> count]),
                    total |-> KwTotal(acc.total, count, per_sheet_cap)])

\* Insert a name into a sequence of names sorted by code points.
RECURSIVE InsertSorted(_, _)
InsertSorted(sorted, name) ==
  IF Len(sorted) = 0 THEN <<name>>
  ELSE IF StrLess(name, sorted[1]) THEN <<name>> \o sorted
  ELSE <<sorted[1]>> \o InsertSorted(Tail(sorted), name)

RECURSIVE SortNames(_)
SortNames(names) ==
  IF Len(names) = 0 THEN <<>>
  ELSE InsertSorted(SortNames(SubSeq(names, 1, Len(names) - 1)), names[Len(names)])

\* Faulty variant of SortedKeys: the dict's insertion order, unsorted.
InsertionOrderKeys(results) == Keys(results)

\* sorted(results.keys())
SortedKeys(results) == SortNames(Keys(results))

\* Faulty variant of TrimTake: the sheet that does not fit is kept whole.
TrimTakeWhole(dfm, remaining) == dfm

\* What one sheet contributes in the trimming loop: dfm if it fits, else
\* dfm.head(remaining).
TrimTake(dfm, remaining) ==
  IF Len(dfm) <= remaining THEN dfm ELSE DfHead(dfm, remaining)

\* The trimming loop over sorted(results.keys()), from position k on.
RECURSIVE TrimLoop(_, _, _, _, _)
TrimLoop(results, order, k, remaining, trimmed) ==
  IF k > Len(order) \/ remaining <= 0 THEN trimmed
  ELSE
    LET name == order[k]
        dfm == Get(results, name)
    IN TrimLoop(results, order, k + 1,
                IF Len(dfm) <= remaining THEN remaining - Len(dfm) ELSE 0,
                Append(trimmed, [name |-> name, val |-> TrimTake(dfm, remaining)]))

\* keyword_search(sheets, query, per_sheet_cap, total_cap) with an integer
\* total_cap: [raised, results, counts, total].
KeywordSearch(sheets, query, per_sheet_cap, total_cap) ==
  LET r == KwLoop(sheets, query, per_sheet_cap, 1,
                  [raised |-> FALSE, results |-> <<>>, counts |-> <<>>, total |-> 0])
  IN IF r.raised
     THEN [raised |-> TRUE, results |-> <<>>, counts |-> <<>>, total |-> 0]
     ELSE IF r.total > total_cap
     THEN [r EXCEPT !.results = TrimLoop(r.results, SortedKeys(r.results), 1,
                                         total_cap, <<>>)]
     ELSE r

-----------------------------------------------------------------------------
(* Semantic index *)

RECURSIVE Join(_, _)
Join(strs, sep) ==
  IF Len(strs) = 0 THEN <<>>
  ELSE IF Len(strs) = 1 THEN strs[1]
  ELSE strs[1] \o sep \o Join(Tail(strs), sep)

\* One document of TfIdfSemantic.row_texts: the cells after astype(str),
\* joined with " | ".
RowText(row) ==
  Join([c \in 1..Len(row) |-> AstypeStr(row[c])], <<" ", "|", " ">>)

RowTexts(df) == [i \in 1..Len(df) |-> RowText(df[i])]

\* TfidfVectorizer's analyzer (lowercase=True, token_pattern \b\w\w+\b): the
\* maximal runs of two or more word characters of the lowercased text.
\* cur is the run being read at position i.
RECURSIVE TokScan(_, _, _)
TokScan(s, i, cur) ==
  IF i > Len(s)
  THEN IF Len(cur) >= 2 THEN {cur} ELSE {}
  ELSE IF IsWordChar(s[i])
  THEN TokScan(s, i + 1, Append(cur, LowerChar(s[i])))
  ELSE (IF Len(cur) >= 2 THEN {cur} ELSE {}) \cup TokScan(s, i + 1, <<>>)

Tokens(s) == TokScan(s, 1, <<>>)

\* The vocabulary fit_transform learns from the documents.
Vocabulary(texts) == UNION {Tokens(texts[i]) : i \in 1..Len(texts)}

\* fit_transform raises ValueError("empty vocabulary ...") when no document
\* holds a token.
FitRaises(texts) == Vocabulary(texts) = {}

\* The matrix X, row by row, as the terms with a non-zero weight.  (The cap
\* max_features=200000 is never reached by the vocabularies of the model.)
FitTransform(texts) == [i \in 1..Len(texts) |-> Tokens(texts[i])]

EmptySEM == [vectorizers |-> <<>>, matrices |-> <<>>, rows |-> <<>>]

\* The loop of TfIdfSemantic.build over sheets.items(), from sheet k on,
\* after the three clear() calls.  acc = [raised, sem].
RECURSIVE BuildLoop(_, _, _, _)
BuildLoop(sheets, per_sheet_limit, k, acc) ==
  IF k > Len(sheets) \/ acc.raised THEN acc
  ELSE
    LET name == sheets[k].name
        df == sheets[k].val
        use_df == SubSeq(df, 1, Min(per_sheet_limit, Len(df)))
        texts == RowTexts(use_df)
    IN IF Len(texts) = 0
       THEN BuildLoop(sheets, per_sheet_limit, k + 1, acc)
       ELSE IF FitRaises(texts)
       THEN [acc EXCEPT !.raised = TRUE]
       ELSE BuildLoop(sheets, per_sheet_limit, k + 1,
              [raised |-> FALSE,
               sem |-> [vectorizers |-> Append(acc.sem.vectorizers,
                                         [name |-> name, val |-> Vocabulary(texts)]),
                        matrices |-> Append(acc.sem.matrices,
                                         [name |-> name, val |-> FitTransform(texts)]),
                        rows |-> Append(acc.sem.rows,
                                         [name |-> name, val |-> use_df])]])

\* TfIdfSemantic.build(sheets, per_sheet_limit): [raised, sem], sem being
\* the index the call leaves behind.
Build(sheets, per_sheet_limit) ==
  BuildLoop(sheets, per_sheet_limit, 1, [raised |-> FALSE, sem |-> EmptySEM])

\* vec.transform([query]): the query's terms that are in the vocabulary.
Transform(vocab, query) == Tokens(query) \cap vocab

\* cosine_similarity(X, qv).ravel(): one score per row.  TF-IDF weights are
\* positive, so a row scores 0 exactly when it shares no term with the
\* query; equal documents score the same.  The positive scores are the
\* levels 1..MaxScore, any assignment of them being possible.
SimsChoices(X, qv, use_df) ==
  {sims \in [1..Len(X) -> 0..MaxScore] :
     /\ \A i \in 1..Len(X) : (sims[i] = 0) <=> (X[i] \cap qv = {})
     /\ \A i, j \in 1..Len(X) : RowText(use_df[i]) = RowText(use_df[j])
                                   => sims[i] = sims[j]}

\* sims.argsort(): an ordering of the indices by ascending score.  The
\* default kind (quicksort) is not stable, so equal scores come in any order.
Argsort(sims) ==
  {p \in [1..Len(sims) -> 1..Len(sims)] :
     /\ \A i, j \in 1..Len(sims) : i # j => p[i] # p[j]
     /\ \A i \in 1..(Len(sims) - 1) : sims[p[i]] <= sims[p[i + 1]]}

Reverse(p) == [i \in 1..Len(p) |-> p[Len(p) + 1 - i]]

\* idx = sims.argsort()[::-1][:top_k] for one ordering p.
TopIdx(p, top_k) == SubSeq(Reverse(p), 1, Min(top_k, Len(p)))

\* The results one sheet may get: [idx, score], idx the index labels of the
\* rows returned, in order, and score[i] the score of the row idx[i].
SheetHits(X, vocab, use_df, query, top_k) ==
  UNION {{[idx |-> TopIdx(p, top_k),
           score |-> [i \in 1..Min(top_k, Len(p)) |-> sims[TopIdx(p, top_k)[i]]]] :
            p \in Argsort(sims)} :
         sims \in SimsChoices(X, Transform(vocab, query), use_df)}

\* TfIdfSemantic.search(query, top_k_per_sheet) on the index sem: the dicts
\* out it may return, built over the vectorizers from entry k on.
RECURSIVE SearchLoop(_, _, _, _)
SearchLoop(sem, query, top_k, k) ==
  IF k > Len(sem.vectorizers) THEN {<<>>}
  ELSE
    LET name == sem.vectorizers[k].name
        X == Get(sem.matrices, name)
        rest == SearchLoop(sem, query, top_k, k + 1)
    IN IF Len(X) = 0 THEN rest
       ELSE {<<[name |-> name, val |-> h]>> \o r :
               h \in SheetHits(X, sem.vectorizers[k].val, Get(sem.rows, name),
                               query, top_k),
               r \in rest}

SemSearch(sem, query, top_k) == SearchLoop(sem, query, top_k, 1)

-----------------------------------------------------------------------------
(* Inputs *)

QueryPool ==
  {<<"b", "0", "7">>, <<"A", "B", "0", "7">>, <<"7">>, <<".">>, <<"(">>,
   <<"n", "a", "n">>, <<>>, <<" ">>}

CellPool ==
  {Str(<<"A", "B", "0", "7">>), Str(<<"B", "0", "7">>),
   Str(<<"A", "B", "1", "0", "7">>), Str(<<"x", ".">>), Str(<<"7">>),
   Str(<<"a">>), NaN}

\* Rows of the sheets that hold several rows.
PlainRows ==
  {<<Str(<<"B", "0", "7">>), Str(<<"x", ".">>)>>,
   <<Str(<<"a">>), Str(<<"7">>)>>,
   <<Str(<<"A", "B", "0", "7">>), NaN>>}

\* Rows of the one-row sheets: every pair of cells.
RichRows == {<<a, b>> : a, b \in CellPool}

\* "B" sorts before "ab": upper case comes first in code point order.
SheetNames == {<<"a", "b">>, <<"B">>}

NameOrders ==
  {o \in UNION {[1..n -> SheetNames] : n \in 0..Cardinality(SheetNames)} :
     \A i, j \in 1..Len(o) : i # j => o[i] # o[j]}

DfsUpTo(n) == UNION {[1..m -> PlainRows] : m \in 0..n}

BooksOver(dfs) ==
  UNION {{[i \in 1..Len(o) |-> [name |-> o[i], val |-> f[i]]] :
            f \in [1..Len(o) -> dfs]} : o \in NameOrders}

RichBooks == {<<[name |-> <<"a", "b">>, val |-> <<row>>]>> : row \in RichRows}

Workbooks == BooksOver(DfsUpTo(MaxRows)) \cup RichBooks

\* What a client may upload: a file read_excel parses, or one it rejects.
Uploads ==
  {[ok |-> TRUE, sheets |-> b] : b \in BooksOver(DfsUpTo(MaxUploadRows))}
    \cup {[ok |-> FALSE, sheets |-> <<>>]}

NoCall == [op |-> "none"]
NoRet == [kind |-> "none"]
NoResp == [kind |-> "none"]

-----------------------------------------------------------------------------
(* The routes /load and /search over the module state SHEETS, SEM *)

Init ==
  /\ SHEETS = <<>>
  /\ SEM = EmptySEM
  /\ pending = {}
  /\ resp = NoResp
  /\ call = NoCall
  /\ ret = NoRet
  /\ pc = "serving"

\* load_workbook up to "raw = await file.read()": the handler has the bytes
\* and yields to the event loop.
LoadRead(raw) ==
  /\ pc = "serving"
  /\ Cardinality(pending) < MaxPending
  /\ raw \notin pending
  /\ pending' = pending \cup {raw}
  /\ UNCHANGED <<SHEETS, SEM, resp, call, ret, pc>>

\* load_workbook from the await to its return.  There is no await in it,
\* so the event loop runs it as one step.
LoadBody(raw) ==
  /\ pc = "serving"
  /\ raw \in pending
  /\ pending' = pending \ {raw}
  /\ IF ~raw.ok
     THEN \* read_workbook_bytes raises before SHEETS is assigned
          /\ resp' = [kind |-> "load_error"]
          /\ UNCHANGED <<SHEETS, SEM>>
     ELSE LET b == Build(raw.sheets, BuildPerSheetLimit)
          IN /\ SHEETS' = raw.sheets
             /\ SEM' = b.sem
             /\ resp' = IF b.raised
                        THEN [kind |-> "load_error"]
                        ELSE [kind |-> "load_ok", sheets |-> Keys(raw.sheets)]
  /\ UNCHANGED <<call, ret, pc>>

\* The /search handler: it holds no await, so it is one step.
Search(query, run_semantic) ==
  /\ pc = "serving"
  /\ IF Len(SHEETS) = 0
     THEN resp' = [kind |-> "not_loaded"]
     ELSE
       LET q == Strip(query)
           kw == KeywordSearch(SHEETS, q, DefaultPerSheetCap, DefaultTotalCap)
       IN IF Len(q) = 0
          THEN resp' = [kind |-> "empty_query"]
          ELSE IF kw.raised
          THEN resp' = [kind |-> "unhandled_exception", query |-> q]
          ELSE IF ~run_semantic
          THEN resp' = [kind |-> "search_ok", query |-> q, keyword |-> kw,
                        run_semantic |-> FALSE, semantic |-> <<>>]
          ELSE \E sem_results \in SemSearch(SEM, q, DefaultTopK) :
                 resp' = [kind |-> "search_ok", query |-> q, keyword |-> kw,
                          run_semantic |-> TRUE, semantic |-> sem_results]
  /\ UNCHANGED <<SHEETS, SEM, pending, call, ret, pc>>

Next ==
  \/ \E raw \in Uploads : LoadRead(raw)
  \/ \E raw \in Uploads : LoadBody(raw)
  \/ \E query \in QueryPool, run_semantic \in BOOLEAN : Search(query, run_semantic)

Spec == Init /\ [][Next]_vars

-----------------------------------------------------------------------------
(* keyword_search called on its own *)

InitKw ==
  /\ SHEETS = <<>>
  /\ SEM = EmptySEM
  /\ pending = {}
  /\ resp = NoResp
  /\ call \in [op : {"keyword_search"}, sheets : Workbooks, query : QueryPool,
               per_sheet_cap : 0..MaxCap, total_cap : 0..MaxCap]
  /\ ret = NoRet
  /\ pc = "call"

KwCall ==
  /\ pc = "call"
  /\ call.op = "keyword_search"
  /\ LET r == KeywordSearch(call.sheets, call.query, call.per_sheet_cap,
                            call.total_cap)
     IN ret' = IF r.raised
               THEN [kind |-> "raised"]
               ELSE [kind |-> "returned", results |-> r.results,
                     counts |-> r.counts, total |-> r.total]
  /\ pc' = "done"
  /\ UNCHANGED <<SHEETS, SEM, pending, resp, call>>

NextKw == KwCall

SpecKw == InitKw /\ [][NextKw]_vars

-----------------------------------------------------------------------------
(* TfIdfSemantic.build and TfIdfSemantic.search called on their own *)

InitSem ==
  /\ SHEETS = <<>>
  /\ SEM = EmptySEM
  /\ pending = {}
  /\ resp = NoResp
  /\ call \in [op : {"semantic"}, sheets : Workbooks,
               per_sheet_limit : (0..MaxLimit) \cup {BuildPerSheetLimit},
               query : QueryPool, top_k : 0..MaxK]
  /\ ret = NoRet
  /\ pc = "build"

SemBuildCall ==
  /\ pc = "build"
  /\ LET b == Build(call.sheets, call.per_sheet_limit)
     IN /\ SEM' = b.sem
        /\ pc' = IF b.raised THEN "build_raised" ELSE "built"
  /\ UNCHANGED <<SHEETS, pending, resp, call, ret>>

\* The index is searched as the build left it, as /search does after a
\* /load whose build raised.
SemSearchCall ==
  /\ pc \in {"built", "build_raised"}
  /\ \E out \in SemSearch(SEM, call.query, call.top_k) :
       ret' = [kind |-> "returned", out |-> out]
  /\ pc' = "done"
  /\ UNCHANGED <<SHEETS, SEM, pending, resp, call>>

NextSem == SemBuildCall \/ SemSearchCall

SpecSem == InitSem /\ [][NextSem]_vars

-----------------------------------------------------------------------------
(* Vocabulary of the properties *)

\* s contains q as a literal substring, compared case-insensitively.
ContainsLiteral(s, q) ==
  \E st \in 0..(Len(s) - Len(q)) :
    \A k \in 1..Len(q) : LowerChar(q[k]) = LowerChar(s[st + k])

\* s equals q, compared case-insensitively.
EqualsIgnoreCase(s, q) ==
  Len(s) = Len(q) /\ \A k \in 1..Len(q) : LowerChar(q[k]) = LowerChar(s[k])

\* str(cell): the string form of a cell.
StrOf(cell) == IF cell.na THEN <<"n", "a", "n">> ELSE cell.s

RECURSIVE SumLens(_)
SumLens(d) == IF Len(d) = 0 THEN 0 ELSE Len(d[1].val) + SumLens(Tail(d))

RECURSIVE SumVals(_)
SumVals(d) == IF Len(d) = 0 THEN 0 ELSE d[1].val + SumVals(Tail(d))

KwReturned == pc = "done" /\ call.op = "keyword_search" /\ ret.kind = "returned"

\* The rows of sheet k of the call that keyword_match_mask marks.
MatchingRows(k) ==
  IF DfEmpty(call.sheets[k].val) THEN <<>>
  ELSE LocMask(KeywordMatchMask(call.sheets[k].val, call.query),
               Len(call.sheets[k].val))

\* The rows of sheet k that the call returned.
ReturnedRows(k) ==
  IF HasKey(ret.results, call.sheets[k].name)
  THEN Get(ret.results, call.sheets[k].name)
  ELSE <<>>

Range(f) == {f[i] : i \in DOMAIN f}

-----------------------------------------------------------------------------
(* C1 *)

ExactRows(k) ==
  {i \in 1..Len(call.sheets[k].val) :
     \E c \in 1..Len(call.sheets[k].val[i]) :
       /\ ~call.sheets[k].val[i][c].na
       /\ EqualsIgnoreCase(call.sheets[k].val[i][c].s, call.query)}

\* C1: for an identifier-like query, every row keyword_search returns for a
\* sheet has a cell equal to the whole query ignoring case, and the sheet's
\* count counts no other row: a row that only contains the query as a
\* proper substring is neither returned nor counted.
C1_IdQueryExactOnly ==
  (KwReturned /\ LooksLikeId(call.query)) =>
    \A k \in 1..Len(call.sheets) :
      /\ Range(ReturnedRows(k)) \subseteq ExactRows(k)
      /\ Get(ret.counts, call.sheets[k].name) <= Cardinality(ExactRows(k))

\* An identifier-like query, a sheet with one row equal to it in some cell
\* (returned) and another row that only contains it (left out).
C1_Witness ==
  /\ KwReturned
  /\ LooksLikeId(call.query)
  /\ \E k \in 1..Len(call.sheets) :
       /\ Range(ReturnedRows(k)) # {}
       /\ \E i \in 1..Len(call.sheets[k].val) :
            /\ i \notin ExactRows(k)
            /\ i \notin Range(ReturnedRows(k))
            /\ \E c \in 1..Len(call.sheets[k].val[i]) :
                 ContainsLiteral(StrOf(call.sheets[k].val[i][c]), call.query)

-----------------------------------------------------------------------------
(* C2 *)

LiteralRows(k) ==
  {i \in 1..Len(call.sheets[k].val) :
     \E c \in 1..Len(call.sheets[k].val[i]) :
       ContainsLiteral(StrOf(call.sheets[k].val[i][c]), call.query)}

\* C2: for a query that is not identifier-like, the rows matched in a
\* non-empty sheet are exactly the rows with a cell whose string form
\* contains the query as a literal substring ignoring case.
C2_SubstringIffLiteral ==
  (KwReturned /\ ~LooksLikeId(call.query)) =>
    \A k \in 1..Len(call.sheets) :
      ~DfEmpty(call.sheets[k].val) =>
        /\ Range(MatchingRows(k)) = LiteralRows(k)
        /\ Get(ret.counts, call.sheets[k].name) = Cardinality(LiteralRows(k))
        /\ Range(ReturnedRows(k)) \subseteq LiteralRows(k)

-----------------------------------------------------------------------------
(* C3 *)

\* C3: keyword_search never raises: every call completes and returns
\* (results, counts, total).
C3_NeverRaises ==
  (pc = "done" /\ call.op = "keyword_search") => ret.kind = "returned"

-----------------------------------------------------------------------------
(* C4 *)

\* C4: the counts returned sum to the total returned, every sheet has a
\* count, and it is the number of its matching rows before any cap (0 for an
\* empty sheet), also for a sheet the caps dropped from the results.
C4_CountsSumToTotal ==
  KwReturned =>
    /\ SumVals(ret.counts) = ret.total
    /\ Keys(ret.counts) = Keys(call.sheets)
    /\ \A k \in 1..Len(call.sheets) :
         Get(ret.counts, call.sheets[k].name) = Len(MatchingRows(k))

\* A call whose global truncation dropped a sheet that has matches and whose
\* per-sheet cap cut another sheet short.
C4_Witness ==
  /\ KwReturned
  /\ ret.total > call.total_cap
  /\ \E k \in 1..Len(call.sheets) :
       Len(MatchingRows(k)) > 0 /\ ~HasKey(ret.results, call.sheets[k].name)
  /\ \E k \in 1..Len(call.sheets) :
       /\ HasKey(ret.results, call.sheets[k].name)
       /\ Len(MatchingRows(k)) > call.per_sheet_cap

-----------------------------------------------------------------------------
(* C5 *)

\* C5: no sheet of the results has more than per_sheet_cap rows, and the
\* results hold at most total_cap rows in all.
C5_CapsRespected ==
  KwReturned =>
    /\ \A i \in 1..Len(ret.results) : Len(ret.results[i].val) <= call.per_sheet_cap
    /\ SumLens(ret.results) <= call.total_cap

\* A call whose global truncation cut a sheet to the budget left: the sheet
\* keeps some rows, fewer than its candidate rows, and the results hold
\* exactly total_cap rows.
C5_Witness ==
  /\ KwReturned
  /\ SumLens(ret.results) = call.total_cap
  /\ \E k \in 1..Len(call.sheets) :
       /\ Len(ReturnedRows(k)) > 0
       /\ Len(ReturnedRows(k)) < Min(call.per_sheet_cap, Len(MatchingRows(k)))

-----------------------------------------------------------------------------
(* C6 *)

\* The candidate size of sheet k: min(per_sheet_cap, count).
Candidate(k) == Min(call.per_sheet_cap, Len(MatchingRows(k)))

RECURSIVE CandidateSum(_)
CandidateSum(k) == IF k = 0 THEN 0 ELSE Candidate(k) + CandidateSum(k - 1)

\* The candidate rows of the sheets whose names sort before sheet k's.
RECURSIVE CandidatesBefore(_, _)
CandidatesBefore(k, m) ==
  IF m = 0 THEN 0
  ELSE (IF StrLess(call.sheets[m].name, call.sheets[k].name) THEN Candidate(m) ELSE 0)
       + CandidatesBefore(k, m - 1)

\* The budget left when the greedy fill reaches sheet k.
BudgetAt(k) == call.total_cap - CandidatesBefore(k, Len(call.sheets))

\* C6: when the candidate sizes sum to more than total_cap, the results are
\* the greedy fill in lexicographic sheet-name order: a sheet reached with
\* budget left contributes the first min(candidate size, budget left) of its
\* matching rows in row order, a sheet reached with no budget left is absent.
C6_GreedyFill ==
  (KwReturned /\ CandidateSum(Len(call.sheets)) > call.total_cap) =>
    \A k \in 1..Len(call.sheets) :
      IF BudgetAt(k) <= 0
      THEN ~HasKey(ret.results, call.sheets[k].name)
      ELSE ReturnedRows(k) = SubSeq(MatchingRows(k), 1, Min(Candidate(k), BudgetAt(k)))

\* The example of the specification: per_sheet_cap = 1, total_cap = 1, two
\* sheets of two matches each, the one that sorts first inserted second; one
\* row comes back, from it, with counts 2 and 2 and total 4.
C6_Witness ==
  /\ KwReturned
  /\ call.per_sheet_cap = 1 /\ call.total_cap = 1
  /\ Len(call.sheets) = 2
  /\ StrLess(call.sheets[2].name, call.sheets[1].name)
  /\ Len(MatchingRows(1)) = 2 /\ Len(MatchingRows(2)) = 2
  /\ Keys(ret.results) = <<call.sheets[2].name>>
  /\ Len(ReturnedRows(2)) = 1
  /\ Get(ret.counts, call.sheets[1].name) = 2
  /\ Get(ret.counts, call.sheets[2].name) = 2
  /\ ret.total = 4

-----------------------------------------------------------------------------
(* C7 *)

\* C7: a load that failed leaves no workbook: the next search is answered
\* with the not-loaded error (SHEETS is empty) and the index holds nothing.
C7_FailedLoadLeavesNoWorkbook ==
  resp.kind = "load_error" => (Len(SHEETS) = 0 /\ SEM = EmptySEM)

-----------------------------------------------------------------------------
(* C8 *)

\* C8: a search that ran saw the complete index of the workbook it searched
\* by keyword: never a cleared or partly refilled index, nor the index of
\* another workbook.
C8_SearchSeesCompleteIndex ==
  resp.kind = "search_ok" =>
    /\ ~Build(SHEETS, BuildPerSheetLimit).raised
    /\ SEM = Build(SHEETS, BuildPerSheetLimit).sem

-----------------------------------------------------------------------------
(* C9 *)

\* C9: for every indexed sheet, TfIdfSemantic.search returns at most
\* top_k_per_sheet rows, in non-increasing order of score, rows of equal
\* score in their original row order.
C9_StableDescendingTopK ==
  (pc = "done" /\ call.op = "semantic") =>
    \A n \in 1..Len(ret.out) :
      LET h == ret.out[n].val
      IN /\ Len(h.idx) <= call.top_k
         /\ \A i, j \in 1..Len(h.idx) :
              i < j => \/ h.score[i] > h.score[j]
                       \/ (h.score[i] = h.score[j] /\ h.idx[i] < h.idx[j])

-----------------------------------------------------------------------------
(* C10 *)

\* The rows of sheet k with a cell that holds a value and matches the query.
RowsHitByValue(k) ==
  {i \in 1..Len(call.sheets[k].val) :
     \E c \in 1..Len(call.sheets[k].val[i]) :
       /\ ~call.sheets[k].val[i][c].na
       /\ RowHits(<<call.sheets[k].val[i][c]>>, call.query)}

\* C10: for a non-empty query a missing cell never makes its row match: the
\* rows returned and counted all have a cell that holds a value and matches.
C10_MissingCellNeverMatches ==
  (KwReturned /\ Len(call.query) > 0) =>
    \A k \in 1..Len(call.sheets) :
      /\ Range(ReturnedRows(k)) \subseteq RowsHitByValue(k)
      /\ Get(ret.counts, call.sheets[k].name) <= Cardinality(RowsHitByValue(k))

====
